---- MODULE Spec2Model ----
(***************************************************************************)
(* Model of package compress (Compress / Decompress): a JSON encoder       *)
(* streamed into a gzip writer, and a gzip reader read through an          *)
(* io.LimitedReader by a json.Decoder, followed by an io.Copy drain.       *)
(*                                                                         *)
(* The library calls the two functions make are modelled by what they do   *)
(* on the byte stream: gzip.Reader.Read (payload bytes, the footer check   *)
(* when the deflate stream ends, a sticky error), io.LimitedReader.Read,   *)
(* json.Decoder.readValue / refill with the scanner's state functions,     *)
(* and io.Discard's ReadFrom loop.                                         *)
(***************************************************************************)
EXTENDS Integers, Sequences, FiniteSets, TLC

VARIABLES
    pc,               \* position of the running call; "idle" between calls,
                      \* "returned" when the caller looks at the result
    data,             \* Compress: the argument `data`
    gw,               \* Compress: the gzip.Writer  [open, plain]
    buf,              \* Compress: bytes.Buffer behind gw (a blob, or NoBlob)
    got,              \* caller: blob returned by the last successful Compress
    compressedData,   \* Decompress: the argument blob
    outNil,           \* Decompress: out == nil
    out,              \* Decompress: *out
    argLimit,         \* Decompress: maxUncompressed as passed by the caller
    maxUncompressed,  \* Decompress: the parameter, after lines 56-58
    gr,               \* Decompress: the gzip.Reader  [open, digest, err]
    lr,               \* Decompress: the io.LimitedReader  [N]
    dec,              \* Decompress: the json.Decoder  [buf, cap, scanned, scan, err]
    ret,              \* result of the call  [fn, err, blob]
    res,              \* resource bookkeeping of the call  [acquired, released]
    trace             \* Decompress: the last read through lr  [req, n, before, reads]

vars == <<pc, data, gw, buf, got, compressedData, outNil, out, argLimit,
          maxUncompressed, gr, lr, dec, ret, res, trace>>

----------------------------------------------------------------------------
(* Bounds of the model *)

\* longest payload of a hand-made (not Compress-produced) blob
MaxLen == 4
\* largest positive limit a caller passes
MaxLimit == 6
\* 1024 in the source; defaultMaxDecompressedSize is 4 * KiB * KiB
KiB == 1
\* json.Decoder.refill reads at least this many bytes' room (512 in encoding/json)
minRead == 2
\* size of the buffer io.Discard reads into (8192 in package io)
discardBufSize == 1

----------------------------------------------------------------------------
(* Bytes and small helpers *)

QUOTE == "\""
NL == "\n"
COMMA == ","
SP == " "

\* bytes a hand-made payload is drawn from
Alphabet == {"1", QUOTE, "[", "]", NL}

Min(a, b) == IF a < b THEN a ELSE b

Most(s) == SubSeq(s, 1, Len(s) - 1)

RECURSIVE SeqsUpTo(_, _)
SeqsUpTo(S, n) ==
    IF n = 0 THEN {<<>>}
    ELSE LET shorter == SeqsUpTo(S, n - 1)
         IN  shorter \cup {Append(s, c) : s \in {t \in shorter : Len(t) = n - 1}, c \in S}

----------------------------------------------------------------------------
(* Values (the `any` handed to Compress, and what Decode stores in *out) *)

NilValue == [t |-> "nil"]
ChanValue == [t |-> "chan"]
ZeroValue == [t |-> "zero"]
Num(n) == [t |-> "num", n |-> n]
Str(s) == [t |-> "str", s |-> s]
Arr(e) == [t |-> "arr", e |-> e]

\* values a caller hands to Compress
Scalars == {Num(1), Num(11), Str(<<>>), Str(<<"1">>)}
EncodableValues ==
    Scalars \cup {Arr(<<>>), Arr(<<Arr(<<>>)>>), Arr(<<Num(1), Num(1)>>)}
             \cup {Arr(<<s>>) : s \in Scalars}
Values == EncodableValues \cup {NilValue, ChanValue, Arr(<<ChanValue>>)}

----------------------------------------------------------------------------
(* encoding/json, write side: Encoder.Encode marshals the value and writes  *)
(* the text followed by a newline in one Write.  The strings of Values hold *)
(* no byte that Marshal escapes.                                            *)

DigitChar == <<"0", "1", "2", "3", "4", "5", "6", "7", "8", "9">>
Digits == {DigitChar[i] : i \in 1..10}
DigitVal(c) == (CHOOSE i \in 1..10 : DigitChar[i] = c) - 1

RECURSIVE FormatInt(_)
FormatInt(n) ==
    IF n < 10 THEN <<DigitChar[n + 1]>>
    ELSE Append(FormatInt(n \div 10), DigitChar[(n % 10) + 1])

RECURSIVE Encodable(_)
Encodable(v) ==
    \/ v.t \in {"num", "str"}
    \/ v.t = "arr" /\ \A i \in 1..Len(v.e) : Encodable(v.e[i])

RECURSIVE Marshal(_)
RECURSIVE MarshalElems(_, _)
MarshalElems(e, i) ==
    IF i > Len(e) THEN <<>>
    ELSE (IF i > 1 THEN <<COMMA>> ELSE <<>>) \o Marshal(e[i]) \o MarshalElems(e, i + 1)

Marshal(v) ==
    CASE v.t = "num" -> FormatInt(v.n)
      [] v.t = "str" -> <<QUOTE>> \o v.s \o <<QUOTE>>
      [] v.t = "arr" -> <<"[">> \o MarshalElems(v.e, 1) \o <<"]">>

\* the bytes enc.Encode(data) writes to gw
EncodeText(v) == Marshal(v) \o <<NL>>

----------------------------------------------------------------------------
(* encoding/json, read side: the scanner's state functions.  The grammar   *)
(* modelled is numbers of digits, strings without escapes, and arrays; the *)
(* bytes that start the other productions ({ - . e t f n \) occur in no    *)
(* payload of the model.                                                   *)

isSpace(c) == c \in {SP, "\t", "\r", NL}

NewScanner == [step |-> "stateBeginValue", parseState |-> <<>>]

ScanResult(s, op) == [s |-> s, op |-> op]

ScanError(s) == ScanResult([s EXCEPT !.step = "stateError"], "scanError")

stateEndTop(s, c) ==
    IF ~isSpace(c)
    THEN ScanResult([s EXCEPT !.step = "stateError"], "scanEnd")
    ELSE ScanResult(s, "scanEnd")

popParseState(s) ==
    LET rest == Most(s.parseState)
    IN  [step |-> IF rest = <<>> THEN "stateEndTop" ELSE "stateEndValue",
         parseState |-> rest]

stateEndValue(s, c) ==
    IF s.parseState = <<>>
    THEN stateEndTop([s EXCEPT !.step = "stateEndTop"], c)
    ELSE IF isSpace(c)
    THEN ScanResult([s EXCEPT !.step = "stateEndValue"], "scanSkipSpace")
    ELSE IF c = COMMA
    THEN ScanResult([s EXCEPT !.step = "stateBeginValue"], "scanArrayValue")
    ELSE IF c = "]"
    THEN ScanResult(popParseState(s), "scanEndArray")
    ELSE ScanError(s)

stateBeginValue(s, c) ==
    IF isSpace(c) THEN ScanResult(s, "scanSkipSpace")
    ELSE IF c = "["
    THEN ScanResult([step |-> "stateBeginValueOrEmpty",
                     parseState |-> Append(s.parseState, "parseArrayValue")],
                    "scanBeginArray")
    ELSE IF c = QUOTE
    THEN ScanResult([s EXCEPT !.step = "stateInString"], "scanBeginLiteral")
    ELSE IF c = "0"
    THEN ScanResult([s EXCEPT !.step = "state0"], "scanBeginLiteral")
    ELSE IF c \in Digits
    THEN ScanResult([s EXCEPT !.step = "state1"], "scanBeginLiteral")
    ELSE ScanError(s)

stateBeginValueOrEmpty(s, c) ==
    IF isSpace(c) THEN ScanResult(s, "scanSkipSpace")
    ELSE IF c = "]" THEN stateEndValue(s, c)
    ELSE stateBeginValue(s, c)

stateInString(s, c) ==
    IF c = QUOTE THEN ScanResult([s EXCEPT !.step = "stateEndValue"], "scanContinue")
    ELSE IF c \in {NL, "\t", "\r"} THEN ScanError(s)
    ELSE ScanResult(s, "scanContinue")

state0(s, c) == stateEndValue(s, c)

state1(s, c) ==
    IF c \in Digits
    THEN ScanResult([s EXCEPT !.step = "state1"], "scanContinue")
    ELSE state0(s, c)

\* s.step(s, c)
Step(s, c) ==
    CASE s.step = "stateBeginValue" -> stateBeginValue(s, c)
      [] s.step = "stateBeginValueOrEmpty" -> stateBeginValueOrEmpty(s, c)
      [] s.step = "stateInString" -> stateInString(s, c)
      [] s.step = "stateEndValue" -> stateEndValue(s, c)
      [] s.step = "stateEndTop" -> stateEndTop(s, c)
      [] s.step = "state0" -> state0(s, c)
      [] s.step = "state1" -> state1(s, c)
      [] s.step = "stateError" -> ScanResult(s, "scanError")

\* The inner loop of Decoder.readValue: scan b from index i (1-based) on.
\* what = "end": a value ends, n is the number of bytes that belong to it;
\* "error": a syntax error; "more": the buffer is used up.
RECURSIVE ScanBuf(_, _, _)
ScanBuf(s, b, i) ==
    IF i > Len(b) THEN [what |-> "more", s |-> s, n |-> Len(b)]
    ELSE LET r == Step(s, b[i])
         IN  CASE r.op = "scanEnd" -> [what |-> "end", s |-> r.s, n |-> i - 1]
               [] r.op = "scanEndArray" ->
                     LET e == stateEndValue(r.s, SP)
                     IN  IF e.op = "scanEnd"
                         THEN [what |-> "end", s |-> e.s, n |-> i]
                         ELSE ScanBuf(e.s, b, i + 1)
               [] r.op = "scanError" -> [what |-> "error", s |-> r.s, n |-> 0]
               [] OTHER -> ScanBuf(r.s, b, i + 1)

nonSpace(b) == \E i \in 1..Len(b) : ~isSpace(b[i])

(* decodeState.unmarshal into an `any`, on text the scanner has accepted *)

RECURSIVE SkipSpace(_, _)
SkipSpace(txt, i) ==
    IF i <= Len(txt) /\ isSpace(txt[i]) THEN SkipSpace(txt, i + 1) ELSE i

RECURSIVE DigitsEnd(_, _)
DigitsEnd(txt, i) ==
    IF i <= Len(txt) /\ txt[i] \in Digits THEN DigitsEnd(txt, i + 1) ELSE i

RECURSIVE ParseInt(_, _)
ParseInt(digits, acc) ==
    IF digits = <<>> THEN acc
    ELSE ParseInt(Tail(digits), acc * 10 + DigitVal(Head(digits)))

RECURSIVE ParseAt(_, _)
RECURSIVE ParseElems(_, _, _)
ParseElems(txt, i, acc) ==
    LET r == ParseAt(txt, i)
        k == SkipSpace(txt, r.next)
    IN  IF txt[k] = COMMA
        THEN ParseElems(txt, k + 1, Append(acc, r.v))
        ELSE [v |-> Arr(Append(acc, r.v)), next |-> k + 1]

ParseAt(txt, i0) ==
    LET i == SkipSpace(txt, i0)
    IN  IF txt[i] = QUOTE
        THEN LET j == CHOOSE k \in (i + 1)..Len(txt) :
                          /\ txt[k] = QUOTE
                          /\ \A m \in (i + 1)..(k - 1) : txt[m] # QUOTE
             IN  [v |-> Str(SubSeq(txt, i + 1, j - 1)), next |-> j + 1]
        ELSE IF txt[i] = "["
        THEN LET k == SkipSpace(txt, i + 1)
             IN  IF txt[k] = "]"
                 THEN [v |-> Arr(<<>>), next |-> k + 1]
                 ELSE ParseElems(txt, k, <<>>)
        ELSE LET j == DigitsEnd(txt, i)
             IN  [v |-> Num(ParseInt(SubSeq(txt, i, j - 1), 0)), next |-> j]

Unmarshal(txt) == ParseAt(txt, 1).v

----------------------------------------------------------------------------
(* Errors *)

NoError == [class |-> "nil", msg |-> "", limit |-> 0]
Err(class, msg) == [class |-> class, msg |-> msg, limit |-> 0]

ErrDataNil == Err("InvalidParams", "data cannot be nil")
ErrEncode == Err("InternalServerError", "failed to encode JSON")
ErrFinalize == Err("InternalServerError", "failed to finalize compression")
ErrEmptyInput == Err("InvalidParams", "compressedData cannot be empty")
ErrNilOutput == Err("InvalidParams", "output pointer cannot be nil")
ErrCreateReader == Err("InternalServerError", "failed to create gzip reader")
ErrDecode == Err("InternalServerError", "failed to decode JSON")
ErrVerify == Err("InternalServerError", "failed to verify complete gzip stream")
ErrSizeLimit(limit) ==
    [class |-> "InvalidParams", msg |-> "decompressed size exceeds limit", limit |-> limit]

defaultMaxDecompressedSize == 4 * KiB * KiB

----------------------------------------------------------------------------
(* compress/gzip.  A blob is its header, the payload its deflate body      *)
(* inflates to, and the footer (CRC-32 and length of the payload; absent   *)
(* when the last bytes are cut off).  crc32 is modelled as collision-free: *)
(* the digest of a byte sequence is the sequence.                          *)

NoBlob == [hdr |-> "none", body |-> <<>>, footer |-> <<>>]
EmptyBlob == [hdr |-> "", body |-> <<>>, footer |-> <<>>]
JunkBlob == [hdr |-> "not gzipped", body |-> <<>>, footer |-> <<>>]

Footer(plain) == <<[crc |-> plain, isize |-> Len(plain)]>>

GzipBlob(plain) == [hdr |-> "gzip", body |-> plain, footer |-> Footer(plain)]

\* truncateEnd(gz, 4) of the tests: the footer is cut
Truncated(b) == [b EXCEPT !.footer = <<>>]
\* a footer whose checksum is not the payload's
Corrupted(b) ==
    [b EXCEPT !.footer = <<[crc |-> Append(b.body, "x"), isize |-> Len(b.body)]>>]

NoWriter == [open |-> FALSE, plain |-> <<>>]
NoReader == [open |-> FALSE, digest |-> <<>>, err |-> "nil"]

\* what the footer check at the end of the deflate stream leaves in z.err
FooterCheck(blob, digest) ==
    IF blob.footer = <<>> THEN "ErrUnexpectedEOF"
    ELSE IF blob.footer[1].crc # digest \/ blob.footer[1].isize # Len(digest)
    THEN "ErrChecksum"
    ELSE "EOF"

\* gzip.Reader.Read into a buffer of plen > 0 bytes.  The payloads of the
\* model fit one flate window, so the inflater hands out what is left of the
\* payload, and reports its end together with the last byte.
GzipRead(z, blob, plen) ==
    IF z.err # "nil" THEN [z |-> z, n |-> 0, err |-> z.err, bytes |-> <<>>]
    ELSE LET pos == Len(z.digest)
             n == Min(plen, Len(blob.body) - pos)
             bytes == SubSeq(blob.body, pos + 1, pos + n)
             digest == z.digest \o bytes
             err == IF pos + n = Len(blob.body) THEN FooterCheck(blob, digest) ELSE "nil"
         IN  [z |-> [z EXCEPT !.digest = digest, !.err = err],
              n |-> n, err |-> err, bytes |-> bytes]

----------------------------------------------------------------------------
(* io.LimitedReader.Read over the gzip reader, into a buffer of plen bytes *)

\* a reader that checks N but does not shorten the buffer to it
LimitedReadUncapped(l, z, blob, plen) ==
    IF l.N <= 0
    THEN [l |-> l, z |-> z, n |-> 0, err |-> "EOF", bytes |-> <<>>,
          req |-> plen, before |-> l.N]
    ELSE LET r == GzipRead(z, blob, plen)
         IN  [l |-> [N |-> l.N - r.n], z |-> r.z, n |-> r.n, err |-> r.err,
              bytes |-> r.bytes, req |-> plen, before |-> l.N]

LimitedRead(l, z, blob, plen) ==
    IF l.N <= 0
    THEN [l |-> l, z |-> z, n |-> 0, err |-> "EOF", bytes |-> <<>>,
          req |-> plen, before |-> l.N]
    ELSE LET r == GzipRead(z, blob, Min(plen, l.N))
         IN  [l |-> [N |-> l.N - r.n], z |-> r.z, n |-> r.n, err |-> r.err,
              bytes |-> r.bytes, req |-> plen, before |-> l.N]

----------------------------------------------------------------------------
(* json.Decoder *)

NewDecoder == [buf |-> <<>>, cap |-> 0, scanned |-> 0, scan |-> NewScanner, err |-> "nil"]

\* Decoder.refill: grow the buffer when fewer than minRead bytes are free
RefillCap(d) == IF d.cap - Len(d.buf) < minRead THEN 2 * d.cap + minRead ELSE d.cap

----------------------------------------------------------------------------
(* State between calls and at the entry of a call *)

NoRet == [fn |-> "none", err |-> NoError, blob |-> NoBlob]
NoRes == [acquired |-> 0, released |-> 0]
NoTrace == [req |-> 0, n |-> 0, before |-> 0, reads |-> 0]

Limits == (-1)..MaxLimit

\* blobs a caller makes by hand rather than with Compress
HandMadeBlobs ==
    {EmptyBlob, JunkBlob}
        \cup {GzipBlob(p) : p \in SeqsUpTo(Alphabet, MaxLen)}
        \cup {Truncated(GzipBlob(p)) : p \in SeqsUpTo(Alphabet, MaxLen)}

Tamper(b, how) ==
    CASE how = "none" -> b
      [] how = "truncate" -> Truncated(b)
      [] how = "corrupt" -> Corrupted(b)

Init ==
    /\ pc = "idle"
    /\ data = NilValue
    /\ gw = NoWriter
    /\ buf = NoBlob
    /\ got = NoBlob
    /\ compressedData = NoBlob
    /\ outNil = FALSE
    /\ out = ZeroValue
    /\ argLimit = 0
    /\ maxUncompressed = 0
    /\ gr = NoReader
    /\ lr = [N |-> 0]
    /\ dec = NewDecoder
    /\ ret = NoRet
    /\ res = NoRes
    /\ trace = NoTrace

DecompressVarsReset ==
    /\ compressedData' = NoBlob
    /\ outNil' = FALSE
    /\ out' = ZeroValue
    /\ argLimit' = 0
    /\ maxUncompressed' = 0
    /\ gr' = NoReader
    /\ lr' = [N |-> 0]
    /\ dec' = NewDecoder
    /\ trace' = NoTrace

----------------------------------------------------------------------------
(* Compress *)

\* the caller calls Compress(v)
CompressCall ==
    /\ pc = "idle"
    /\ got = NoBlob
    /\ pc' = "cEntry"
    /\ \E v \in Values : data' = v
    /\ gw' = NoWriter
    /\ buf' = NoBlob
    /\ got' = NoBlob
    /\ ret' = [NoRet EXCEPT !.fn = "Compress"]
    /\ res' = NoRes
    /\ DecompressVarsReset

\* lines 19-26: the nil check, then the buffer, the gzip writer and the encoder
CompressBegin ==
    /\ pc = "cEntry"
    /\ IF data = NilValue
       THEN /\ ret' = [ret EXCEPT !.err = ErrDataNil]
            /\ pc' = "cExit"
            /\ UNCHANGED <<gw, res>>
       ELSE /\ gw' = [open |-> TRUE, plain |-> <<>>]
            /\ res' = [res EXCEPT !.acquired = @ + 1]
            /\ pc' = "cEncode"
            /\ UNCHANGED ret
    /\ UNCHANGED <<data, buf, got, compressedData, outNil, out, argLimit,
                   maxUncompressed, gr, lr, dec, trace>>

\* an encode-error return that forgets the writer
LeaveOpenOnEncodeError(w, r) == [gw |-> w, res |-> r]

\* gw.Close() of line 30: the writer is closed, what it flushed is dropped
CloseOnEncodeError(w, r) ==
    [gw |-> [w EXCEPT !.open = FALSE], res |-> [r EXCEPT !.released = @ + 1]]

\* lines 29-32: enc.Encode(data)
CompressEncode ==
    /\ pc = "cEncode"
    /\ IF Encodable(data)
       THEN /\ gw' = [gw EXCEPT !.plain = @ \o EncodeText(data)]
            /\ pc' = "cFinalize"
            /\ UNCHANGED <<ret, res>>
       ELSE /\ gw' = CloseOnEncodeError(gw, res).gw
            /\ res' = CloseOnEncodeError(gw, res).res
            /\ ret' = [ret EXCEPT !.err = ErrEncode]
            /\ pc' = "cExit"
    /\ UNCHANGED <<data, buf, got, compressedData, outNil, out, argLimit,
                   maxUncompressed, gr, lr, dec, trace>>

\* returning buf.Bytes() without the Close that writes the footer
UnfinishedBytes(w) == Truncated(GzipBlob(w.plain))

\* line 41: buf.Bytes() after gw.Close() has flushed the body and the footer
FinishedBytes(w) == GzipBlob(w.plain)

\* lines 37-41: gw.Close() writes what is buffered and the footer.  closeErr is
\* what Close returns; either way the writer is closed.
CompressFinalize ==
    /\ pc = "cFinalize"
    /\ gw' = [gw EXCEPT !.open = FALSE]
    /\ res' = [res EXCEPT !.released = @ + 1]
    /\ \E closeErr \in BOOLEAN :
           IF closeErr
           THEN /\ ret' = [ret EXCEPT !.err = ErrFinalize]
                /\ UNCHANGED buf
           ELSE /\ buf' = FinishedBytes(gw)
                /\ ret' = [ret EXCEPT !.blob = FinishedBytes(gw)]
    /\ pc' = "cExit"
    /\ UNCHANGED <<data, got, compressedData, outNil, out, argLimit,
                   maxUncompressed, gr, lr, dec, trace>>

\* Compress returns
CompressReturn ==
    /\ pc = "cExit"
    /\ pc' = "returned"
    /\ UNCHANGED <<data, gw, buf, got, compressedData, outNil, out, argLimit,
                   maxUncompressed, gr, lr, dec, ret, res, trace>>

----------------------------------------------------------------------------
(* Decompress *)

DecompressEntry(b, nilOut, limit) ==
    /\ pc' = "Start"
    /\ compressedData' = b
    /\ outNil' = nilOut
    /\ out' = ZeroValue
    /\ argLimit' = limit
    /\ maxUncompressed' = limit
    /\ gr' = NoReader
    /\ lr' = [N |-> 0]
    /\ dec' = NewDecoder
    /\ ret' = [NoRet EXCEPT !.fn = "Decompress"]
    /\ res' = NoRes
    /\ trace' = NoTrace
    /\ gw' = NoWriter
    /\ buf' = NoBlob

\* the caller calls Decompress(b, &out or nil, limit) on a hand-made blob
DecompressCall ==
    /\ pc = "idle"
    /\ got = NoBlob
    /\ UNCHANGED <<data, got>>
    /\ \E b \in HandMadeBlobs, nilOut \in BOOLEAN, limit \in Limits :
           DecompressEntry(b, nilOut, limit)

\* the caller calls Decompress on the blob Compress gave it, as it is or
\* with its footer cut or overwritten
DecompressGot ==
    /\ pc = "idle"
    /\ got # NoBlob
    /\ UNCHANGED <<data, got>>
    /\ \E how \in {"none", "truncate", "corrupt"}, nilOut \in BOOLEAN, limit \in Limits :
           DecompressEntry(Tamper(got, how), nilOut, limit)

\* lines 56-58
EffectiveLimit(limit) == IF limit <= 0 THEN defaultMaxDecompressedSize ELSE limit

\* the reader opened before the destination is checked
OpenBeforeNilCheck(b, nilOut, limit) ==
    IF b = EmptyBlob
    THEN [what |-> "fail", err |-> ErrEmptyInput, limit |-> limit, opened |-> 0]
    ELSE IF b.hdr # "gzip"
    THEN [what |-> "fail", err |-> ErrCreateReader, limit |-> EffectiveLimit(limit),
          opened |-> 0]
    ELSE IF nilOut
    THEN [what |-> "fail", err |-> ErrNilOutput, limit |-> EffectiveLimit(limit),
          opened |-> 1]
    ELSE [what |-> "ok", err |-> NoError, limit |-> EffectiveLimit(limit), opened |-> 1]

\* lines 47-65: the argument checks in their order, the default limit, and
\* gzip.NewReader, which reads the header.  what = "ok": the reader is open.
OpenOutcome(b, nilOut, limit) ==
    IF b = EmptyBlob
    THEN [what |-> "fail", err |-> ErrEmptyInput, limit |-> limit, opened |-> 0]
    ELSE IF nilOut
    THEN [what |-> "fail", err |-> ErrNilOutput, limit |-> limit, opened |-> 0]
    ELSE IF b.hdr # "gzip"
    THEN [what |-> "fail", err |-> ErrCreateReader, limit |-> EffectiveLimit(limit),
          opened |-> 0]
    ELSE [what |-> "ok", err |-> NoError, limit |-> EffectiveLimit(limit), opened |-> 1]

DecompressOpen ==
    /\ pc = "Start"
    /\ LET o == OpenOutcome(compressedData, outNil, maxUncompressed)
       IN  /\ maxUncompressed' = o.limit
           /\ ret' = [ret EXCEPT !.err = o.err]
           /\ res' = [res EXCEPT !.acquired = @ + o.opened]
           /\ gr' = [gr EXCEPT !.open = (o.opened = 1)]
           /\ pc' = IF o.what = "ok" THEN "HeaderParsed" ELSE "Failed"
    /\ UNCHANGED <<data, gw, buf, got, compressedData, outNil, out, argLimit,
                   lr, dec, trace>>

\* line 69: the bounded reader
NewLimitedReader(limit) == [N |-> limit]

\* lines 69-70: lr and json.NewDecoder(lr)
DecompressWrap ==
    /\ pc = "HeaderParsed"
    /\ lr' = NewLimitedReader(maxUncompressed)
    /\ dec' = NewDecoder
    /\ pc' = "BoundedDecoding"
    /\ UNCHANGED <<data, gw, buf, got, compressedData, outNil, out, argLimit,
                   maxUncompressed, gr, ret, res, trace>>

\* Decoder.readValue, one pass of its outer loop: scan what is buffered and
\* not yet scanned
Scanned == ScanBuf(dec.scan, dec.buf, dec.scanned + 1)

\* the read error of the last refill, looked at once the buffer is used up:
\* at EOF a number may end the input
ValueEndsAtEOF(sc) == dec.err = "EOF" /\ Step(sc.s, SP).op = "scanEnd"

ReadError(sc) ==
    IF dec.err = "EOF" /\ nonSpace(dec.buf) THEN "ErrUnexpectedEOF" ELSE dec.err

\* line 70, first half: Decode needs more input and the last read reported no
\* error: Decoder.refill reads once through lr
DecodeRefill ==
    /\ pc = "BoundedDecoding"
    /\ Scanned.what = "more"
    /\ dec.err = "nil"
    /\ LET cap == RefillCap(dec)
           r == LimitedRead(lr, gr, compressedData, cap - Len(dec.buf))
       IN  /\ dec' = [buf |-> dec.buf \o r.bytes, cap |-> cap, scanned |-> Scanned.n,
                      scan |-> Scanned.s, err |-> r.err]
           /\ lr' = r.l
           /\ gr' = r.z
           /\ trace' = [req |-> r.req, n |-> r.n, before |-> r.before,
                        reads |-> 1]
    /\ UNCHANGED <<pc, data, gw, buf, got, compressedData, outNil, out, argLimit,
                   maxUncompressed, ret, res>>

\* returning nil right after Decode
SkipDrain == "Verified"

\* where Decompress goes once Decode has returned nil: the drain of line 81
AfterDecode == "Draining"

\* line 70, Decode returns nil: the value's bytes are unmarshalled into *out
DecodeDone ==
    /\ pc = "BoundedDecoding"
    /\ \/ Scanned.what = "end"
       \/ Scanned.what = "more" /\ dec.err # "nil" /\ ValueEndsAtEOF(Scanned)
    /\ out' = Unmarshal(SubSeq(dec.buf, 1, Scanned.n))
    /\ dec' = [dec EXCEPT !.scanned = Scanned.n, !.scan = Scanned.s]
    /\ pc' = AfterDecode
    /\ UNCHANGED <<data, gw, buf, got, compressedData, outNil, argLimit,
                   maxUncompressed, gr, lr, ret, res, trace>>

\* lines 71-74: which error a failed Decode becomes
DecodeFailure(l, limit) == IF l.N <= 0 THEN ErrSizeLimit(limit) ELSE ErrDecode

\* line 70, Decode returns an error: a syntax error, or a read error with the
\* value unfinished
DecodeFail ==
    /\ pc = "BoundedDecoding"
    /\ \/ Scanned.what = "error"
       \/ Scanned.what = "more" /\ dec.err # "nil" /\ ~ValueEndsAtEOF(Scanned)
    /\ ret' = [ret EXCEPT !.err = DecodeFailure(lr, maxUncompressed)]
    /\ dec' = [dec EXCEPT !.scanned = Scanned.n, !.scan = Scanned.s,
                          !.err = IF Scanned.what = "error" THEN "SyntaxError"
                                  ELSE ReadError(Scanned)]
    /\ pc' = "Failed"
    /\ UNCHANGED <<data, gw, buf, got, compressedData, outNil, out, argLimit,
                   maxUncompressed, gr, lr, res, trace>>

\* lines 82-85: which error a failed io.Copy becomes
DrainFailure(l, limit) == IF l.N <= 0 THEN ErrSizeLimit(limit) ELSE ErrVerify

\* line 81: io.Copy(io.Discard, lr) is io.Discard's ReadFrom, which reads
\* into its buffer until Read reports an error, and returns nil for io.EOF
DrainRead ==
    /\ pc = "Draining"
    /\ LET r == LimitedRead(lr, gr, compressedData, discardBufSize)
       IN  /\ lr' = r.l
           /\ gr' = r.z
           /\ trace' = [req |-> r.req, n |-> r.n, before |-> r.before,
                        reads |-> 1]
           /\ IF r.err = "nil" THEN UNCHANGED <<pc, ret>>
              ELSE IF r.err = "EOF" THEN pc' = "Verified" /\ UNCHANGED ret
              ELSE /\ pc' = "Failed"
                   /\ ret' = [ret EXCEPT !.err = DrainFailure(r.l, maxUncompressed)]
    /\ UNCHANGED <<data, gw, buf, got, compressedData, outNil, out, argLimit,
                   maxUncompressed, dec, res>>

\* line 65: the deferred gr.Close(), registered once NewReader has succeeded
DeferredClose(z, r) ==
    IF z.open
    THEN [gr |-> [z EXCEPT !.open = FALSE], res |-> [r EXCEPT !.released = @ + 1]]
    ELSE [gr |-> z, res |-> r]

\* Decompress returns (line 88, or one of the error returns): deferred calls run
DecompressReturn ==
    /\ pc \in {"Verified", "Failed"}
    /\ gr' = DeferredClose(gr, res).gr
    /\ res' = DeferredClose(gr, res).res
    /\ pc' = "returned"
    /\ UNCHANGED <<data, gw, buf, got, compressedData, outNil, out, argLimit,
                   maxUncompressed, lr, dec, ret, trace>>

----------------------------------------------------------------------------
(* The caller.  Calls are independent: the caller either keeps the value and
   the blob of a successful Compress for one Decompress, or starts afresh. *)

CallerKeepsBlob ==
    /\ pc = "returned"
    /\ ret.fn = "Compress"
    /\ ret.err = NoError
    /\ pc' = "idle"
    /\ got' = ret.blob
    /\ gw' = NoWriter
    /\ buf' = NoBlob
    /\ ret' = NoRet
    /\ res' = NoRes
    /\ UNCHANGED <<data, compressedData, outNil, out, argLimit, maxUncompressed,
                   gr, lr, dec, trace>>

CallerStartsAfresh ==
    /\ pc = "returned"
    /\ ~(ret.fn = "Compress" /\ ret.err = NoError)
    /\ pc' = "idle"
    /\ data' = NilValue
    /\ got' = NoBlob
    /\ gw' = NoWriter
    /\ buf' = NoBlob
    /\ ret' = NoRet
    /\ res' = NoRes
    /\ DecompressVarsReset

----------------------------------------------------------------------------

Next ==
    \/ CompressCall
    \/ CompressBegin
    \/ CompressEncode
    \/ CompressFinalize
    \/ CompressReturn
    \/ DecompressCall
    \/ DecompressGot
    \/ DecompressOpen
    \/ DecompressWrap
    \/ DecodeRefill
    \/ DecodeDone
    \/ DecodeFail
    \/ DrainRead
    \/ DecompressReturn
    \/ CallerKeepsBlob
    \/ CallerStartsAfresh

Spec == Init /\ [][Next]_vars

----------------------------------------------------------------------------
(* Vocabulary of the properties *)

Returned(fn) == pc = "returned" /\ ret.fn = fn

\* Decompress got as far as reading the payload
ReadPayload == ret.fn = "Decompress" /\ compressedData.hdr = "gzip" /\ ~outNil

Payload == compressedData.body

\* length of the complete JSON value the payload starts with (leading white
\* space included), or -1 when it starts with none
LeadingValueLen(plain) ==
    LET sc == ScanBuf(NewScanner, plain, 1)
    IN  IF sc.what = "end" THEN sc.n
        ELSE IF sc.what = "more" /\ Step(sc.s, SP).op = "scanEnd" THEN Len(plain)
        ELSE -1

\* the payload is what Compress writes for some value
IsCompressOutput(plain) == \E v \in EncodableValues : plain = EncodeText(v)

FooterIntact(b) == b.footer = Footer(b.body)

\* lr exists: Decompress is past line 69
Bounded ==
    /\ ReadPayload
    /\ pc \in {"BoundedDecoding", "Draining", "Verified", "Failed", "returned"}

----------------------------------------------------------------------------
(* Properties *)

\* C1: a payload that starts with a complete value fitting the limit but is
\* longer than the limit makes Decompress fail with the size-limit error.
C1_TrailingBytesOverLimitFail ==
    (/\ Returned("Decompress")
     /\ ReadPayload
     /\ LeadingValueLen(Payload) >= 1
     /\ LeadingValueLen(Payload) <= maxUncompressed
     /\ Len(Payload) > maxUncompressed)
        => ret.err = ErrSizeLimit(maxUncompressed)

\* C2: a blob made by Compress whose footer is cut or overwritten, read with a
\* limit of at least its payload's length, fails with the verify error.
C2_BadFooterNeverSucceeds ==
    (/\ Returned("Decompress")
     /\ ReadPayload
     /\ IsCompressOutput(Payload)
     /\ ~FooterIntact(compressedData)
     /\ maxUncompressed >= Len(Payload))
        => ret.err = ErrVerify

\* C3: Decompress of what Compress returned for v, with a limit of at least
\* the payload's length (or the default, when the payload fits it), returns
\* no error and leaves v in *out.
C3_RoundTrip ==
    (/\ Returned("Decompress")
     /\ got # NoBlob
     /\ compressedData = got
     /\ ~outNil
     /\ \/ argLimit >= Len(Payload)
        \/ argLimit <= 0 /\ Len(Payload) <= defaultMaxDecompressedSize)
        => ret.err = NoError /\ out = data

C3_Witness ==
    /\ Returned("Decompress")
    /\ got # NoBlob
    /\ compressedData = got
    /\ argLimit = Len(Payload)
    /\ data = Arr(<<Num(1), Num(1)>>)
    /\ out = data

\* C4: when the value the payload starts with is longer than the limit,
\* Decompress fails with the size-limit error.
C4_ValueOverLimitFails ==
    (/\ Returned("Decompress")
     /\ ReadPayload
     /\ LeadingValueLen(Payload) > maxUncompressed)
        => ret.err = ErrSizeLimit(maxUncompressed)

\* C5: the size-limit error is returned only for a payload longer than the
\* limit; an intact container whose payload is malformed JSON no longer than
\* the limit fails with the decode error.
C5_SizeLimitOnlyWhenOver ==
    Returned("Decompress") =>
        /\ ret.err.msg = ErrSizeLimit(0).msg => Len(Payload) > maxUncompressed
        /\ (/\ ReadPayload
            /\ FooterIntact(compressedData)
            /\ LeadingValueLen(Payload) = -1
            /\ Len(Payload) <= maxUncompressed) => ret.err = ErrDecode

\* C6: with a limit <= 0 Decompress runs with the default limit, and a payload
\* longer than the default then fails with the size-limit error.
C6_NonPositiveLimitIsDefault ==
    (Returned("Decompress") /\ ReadPayload /\ argLimit <= 0) =>
        /\ maxUncompressed = defaultMaxDecompressedSize
        /\ Len(Payload) > defaultMaxDecompressedSize =>
               ret.err = ErrSizeLimit(defaultMaxDecompressedSize)

\* C7: a nil value, an empty blob and a nil destination are rejected with
\* InvalidParams before a compressor or decompressor exists, before a byte of
\* the blob is read and with the destination untouched.
C7_ValidationFirst ==
    /\ (ret.fn = "Compress" /\ data = NilValue) =>
           /\ res.acquired = 0 /\ ~gw.open /\ buf = NoBlob
           /\ pc = "returned" => ret.err = ErrDataNil /\ ret.blob = NoBlob
    /\ (ret.fn = "Decompress" /\ pc # "Start" /\ (compressedData = EmptyBlob \/ outNil)) =>
           /\ res.acquired = 0 /\ ~gr.open
           /\ gr.digest = <<>> /\ trace.reads = 0
           /\ out = ZeroValue
           /\ ret.err = IF compressedData = EmptyBlob THEN ErrEmptyInput ELSE ErrNilOutput

C7_Witness ==
    /\ Returned("Decompress")
    /\ outNil
    /\ compressedData.hdr = "gzip"
    /\ ret.err = ErrNilOutput

\* C8: a call acquires at most one compressor or decompressor, and has
\* released it when it returns, whatever it returns.
C8_ReleasedOnReturn ==
    /\ res.acquired <= 1
    /\ res.released <= res.acquired
    /\ gw.open \/ gr.open => res.released < res.acquired
    /\ pc = "returned" => res.released = res.acquired /\ ~gw.open /\ ~gr.open

C8_Witness ==
    /\ Returned("Compress")
    /\ ret.err = ErrEncode
    /\ res.acquired = 1
    /\ res.released = 1

\* C9: Decompress moves Start, HeaderParsed, BoundedDecoding, Draining,
\* Verified in that order without skipping; any of the first four may go to
\* Failed instead, after which it only returns; it returns nil only from
\* Verified.
PhaseEdges ==
    {<<"Start", "HeaderParsed">>, <<"HeaderParsed", "BoundedDecoding">>,
     <<"BoundedDecoding", "Draining">>, <<"Draining", "Verified">>,
     <<"Start", "Failed">>, <<"HeaderParsed", "Failed">>,
     <<"BoundedDecoding", "Failed">>, <<"Draining", "Failed">>,
     <<"Verified", "returned">>, <<"Failed", "returned">>}

PhaseStep ==
    /\ (ret.fn = "Decompress" /\ pc' # pc /\ pc # "returned") => <<pc, pc'>> \in PhaseEdges
    /\ (pc # "returned" /\ Returned("Decompress")' /\ ret'.err = NoError) => pc = "Verified"
    /\ pc = "Failed" => ret'.err # NoError /\ out' = out /\ lr' = lr

C9_PhaseOrder == [][PhaseStep]_vars

C9_Witness ==
    /\ Returned("Decompress")
    /\ ret.err = NoError
    /\ gr.err = "EOF"

\* C10: lr starts with the effective limit; a read delivers at most the
\* smaller of the bytes asked for and the bytes remaining, and takes exactly
\* what it delivers off the remainder; the remainder is never negative; in
\* all, no more payload bytes are delivered than the limit.
C10_BoundedReader ==
    Bounded =>
        /\ lr.N >= 0
        /\ lr.N + Len(gr.digest) = maxUncompressed
        /\ Len(gr.digest) <= maxUncompressed
        /\ trace.reads = 0 => lr.N = maxUncompressed
        /\ trace.reads > 0 =>
               /\ trace.n <= Min(trace.req, trace.before)
               /\ lr.N = trace.before - trace.n

C10_Witness ==
    /\ pc = "Draining"
    /\ lr.N = 0
    /\ trace.n > 0
    /\ trace.n < trace.req
    /\ Len(Payload) > maxUncompressed

====
